---- MODULE Spec2Model ----
(***************************************************************************)
(* SkyFrame backend: the enhancement-job orchestration of enhance.py over  *)
(* the job/upload tables of database.py, the storage of storage.py, the    *)
(* configuration of config.py and the upload routes of main.py.            *)
(*                                                                         *)
(* Every coroutine is cut at its await points: one action is the code that *)
(* runs between two awaits, and the store statement an await wraps takes   *)
(* effect in the action that ends with it.  The store itself is reliable   *)
(* (sqlite statements on a local file are not modelled as failing other    *)
(* than by the PRIMARY KEY constraint).                                    *)
(***************************************************************************)
EXTENDS Integers, Sequences, FiniteSets, TLC

VARIABLES
    token,      \* config.REPLICATE_API_TOKEN is a non-empty string
    uploads,    \* table uploads: upload id -> NULL or <<row>>
    files,      \* storage keys that exist under STORAGE_DIR
    jobs,       \* table jobs: job id -> NULL or <<row>>
    req,        \* create_enhance_job coroutines, one per request slot
    unit,       \* _run_prediction tasks, one per job id
    pred,       \* the external service's prediction objects, one per job id
    spawned,    \* history: number of asyncio.create_task calls per job id
    calls,      \* history: external-client and fetcher invocations per job id
    probe       \* one result handed to lines 109-112 on its own

jobvars == <<token, uploads, files, jobs, req, unit, pred, spawned, calls>>
vars == <<token, uploads, files, jobs, req, unit, pred, spawned, calls, probe>>

(***************************************************************************)
(* Bounds and value universes                                              *)
(***************************************************************************)
MaxReq == 2
MaxLen == 2

ReqIds == 1..MaxReq
UploadIds == {"upl_1"}
UploadIdArgs == UploadIds \cup {"upl_x"}
JobIdSeq == <<"job_1", "job_2">>
JobIds == {JobIdSeq[i] : i \in 1..Len(JobIdSeq)}

\* Python's None / SQL NULL, and a present value: a 0- or 1-element sequence.
NULL == <<>>
Some(v) == <<v>>
Val(o) == o[1]

\* File names are sequences of characters; "/" and " " are not alphanumeric.
Filenames == {<<"a", " ", "b", ".", "m">>}
ModelKeyArgs == {NULL, Some("bogus")}

(***************************************************************************)
(* config.py                                                               *)
(***************************************************************************)
DEFAULT_ENHANCE_MODEL == "upscale"

\* REPLICATE_MODELS.get(key): the model name, or None
REPLICATE_MODELS(key) ==
    CASE key = "upscale" -> Some("lucataco/real-esrgan-video")
      [] key = "upscale_premium" -> Some("topazlabs/video-upscale")
      [] OTHER -> NULL

(***************************************************************************)
(* storage.py                                                              *)
(***************************************************************************)
IsAlnum(c) == c \in {"a", "b", "c", "m", "e"}

\* "".join(c if c.isalnum() or c in "._-" else "_" for c in filename)
Safe(filename) ==
    [i \in 1..Len(filename) |->
        IF IsAlnum(filename[i]) \/ filename[i] \in {".", "_", "-"}
        THEN filename[i] ELSE "_"]

\* f"uploads/{y}/{m}/{d}/{upload_id}_{safe}": the date part is left out
generate_storage_key(upload_id, filename) ==
    <<"uploads", upload_id, "_">> \o Safe(filename)

generate_output_key(job_id, filename) ==
    <<"outputs", job_id, "_">> \o Safe(filename)

file_exists(storage_key) == storage_key \in files

(***************************************************************************)
(* database.py                                                             *)
(***************************************************************************)
\* SELECT * FROM uploads WHERE id = ?  ->  dict(row) or None
get_upload(upload_id) ==
    IF upload_id \in UploadIds THEN uploads[upload_id] ELSE NULL

\* UPDATE uploads SET k = :k, ... WHERE id = :id  (no row: nothing changes)
update_upload(upload_id, fields) ==
    IF uploads[upload_id] = NULL THEN uploads
    ELSE [uploads EXCEPT ![upload_id] = Some([c \in DOMAIN Val(@) |->
            IF c \in DOMAIN fields THEN fields[c] ELSE Val(@)[c]])]

\* The row INSERT INTO jobs (id, upload_id, model_name, status, created_at)
\* creates: the other columns take the schema's defaults.
NewJobRow(record) ==
    [id |-> record.id, upload_id |-> record.upload_id,
     model_name |-> record.model_name, replicate_id |-> NULL,
     status |-> record.status, progress |-> 0,
     output_key |-> NULL, output_size |-> NULL, error_message |-> NULL,
     created_at |-> record.created_at, started_at |-> NULL,
     completed_at |-> NULL]

\* insert_job_ok for a table without the key constraint
insert_job_ok_no_key(record) == TRUE

\* The id column is the PRIMARY KEY: a second row with the id is refused.
insert_job_ok(record) == jobs[record.id] = NULL

insert_job(record) == [jobs EXCEPT ![record.id] = Some(NewJobRow(record))]

\* UPDATE jobs SET k = :k, ... WHERE id = :id  (no row: nothing changes)
update_job(job_id, fields) ==
    IF jobs[job_id] = NULL THEN jobs
    ELSE [jobs EXCEPT ![job_id] = Some([c \in DOMAIN Val(@) |->
            IF c \in DOMAIN fields THEN fields[c] ELSE Val(@)[c]])]

\* SELECT * FROM jobs WHERE id = ?
get_job(job_id) == jobs[job_id]

\* datetime.now(timezone.utc).isoformat(): some timestamp string
Now == Some("ts")

(***************************************************************************)
(* main.py: upload routes.  The source file of an upload reaches storage   *)
(* through them; jobs are created for the uploads they mark "uploaded".    *)
(***************************************************************************)
\* POST /api/uploads/init, for a file name and type _validate_file_meta accepts
init_upload(upload_id, filename) ==
    /\ uploads[upload_id] = NULL
    /\ uploads' = [uploads EXCEPT ![upload_id] = Some(
            [id |-> upload_id, original_filename |-> filename,
             storage_key |-> generate_storage_key(upload_id, filename),
             status |-> "uploading"])]
    /\ UNCHANGED <<probe, token, files, jobs, req, unit, pred, spawned, calls>>

\* PUT /api/uploads/{id}/file.  storage.save_file writes the body ("ok"),
\* raises before the destination is opened ("raise_early"), or raises while
\* reading the body, after open(dest, "wb") created the file ("raise_late").
SaveOutcomes == {"ok", "raise_early", "raise_late"}

upload_file(upload_id, outcome) ==
    LET record == get_upload(upload_id) IN
    /\ record # NULL
    /\ Val(record).status = "uploading"
    /\ files' = IF outcome = "raise_early" THEN files
                ELSE files \cup {Val(record).storage_key}
    /\ uploads' = IF outcome = "ok" THEN uploads
                  ELSE update_upload(upload_id, [status |-> "failed"])
    /\ UNCHANGED <<probe, token, jobs, req, unit, pred, spawned, calls>>

\* POST /api/uploads/{id}/complete
complete_upload(upload_id) ==
    LET record == get_upload(upload_id) IN
    /\ record # NULL
    /\ uploads' = IF ~file_exists(Val(record).storage_key)
                  THEN update_upload(upload_id, [status |-> "failed"])
                  ELSE update_upload(upload_id, [status |-> "uploaded"])
    /\ UNCHANGED <<probe, token, files, jobs, req, unit, pred, spawned, calls>>

\* storage.delete_file, called by whoever cleans the storage directory: the
\* source file of an upload is removed.
delete_file(upload_id) ==
    LET record == get_upload(upload_id) IN
    /\ record # NULL
    /\ file_exists(Val(record).storage_key)
    /\ files' = files \ {Val(record).storage_key}
    /\ UNCHANGED <<probe, token, uploads, jobs, req, unit, pred, spawned, calls>>

(***************************************************************************)
(* The external prediction service, as the replicate client shows it       *)
(***************************************************************************)
\* A value inside prediction.output: a str, an object with a url attribute
\* (FileOutput), None, or anything else (a number, say).
ItemStr(u) == [t |-> "str", url |-> u]
ItemObj(u) == [t |-> "obj", url |-> u]
ItemNone == [t |-> "none", url |-> ""]
ItemOther == [t |-> "other", url |-> ""]

\* prediction.output: None, a str, a FileOutput, a list or a dict
OutNone == [t |-> "none", url |-> "", items |-> <<>>, entries |-> <<>>]
OutStr(u) == [t |-> "str", url |-> u, items |-> <<>>, entries |-> <<>>]
OutObj(u) == [t |-> "obj", url |-> u, items |-> <<>>, entries |-> <<>>]
OutList(items) == [t |-> "list", url |-> "", items |-> items, entries |-> <<>>]
OutDict(entries) == [t |-> "dict", url |-> "", items |-> <<>>, entries |-> entries]
Entry(k, v) == [k |-> k, v |-> v]

Url == "https://out/v"

\* The outputs the service answers with in the job model
Outputs ==
    {OutNone, OutStr(Url), OutStr(""), OutObj(Url),
     OutList(<<>>), OutList(<<ItemOther, ItemStr(Url)>>),
     OutDict(<<Entry("video", ItemObj(Url))>>),
     OutDict(<<Entry("result", ItemNone)>>),
     OutDict(<<Entry("file", ItemStr(Url))>>)}

Reasons == {"low confidence"}

\* The service's side of a prediction: its status and, once failed, its error
NoPrediction == [status |-> "none", error |-> "", poll_error |-> FALSE]

\* prediction.id of the prediction created for a job's submission
PredictionId(j) == <<"pred", j>>

(***************************************************************************)
(* enhance.py: _extract_output_url                                         *)
(***************************************************************************)
KnownKeysReversed == <<"result", "enhanced_video", "output", "video">>

KnownKeys == <<"video", "output", "enhanced_video", "result">>

\* str(val) of a value without a url attribute
StrOf(v) ==
    CASE v.t = "str" -> v.url
      [] v.t = "none" -> "None"
      [] OTHER -> "0"

\* for item in output: the first str or url-bearing item decides
ListUrl(items) ==
    LET hits == {i \in 1..Len(items) : items[i].t \in {"str", "obj"}} IN
    IF hits = {} THEN NULL
    ELSE Some(items[CHOOSE i \in hits : \A k \in hits : i <= k].url)

\* for key in ("video", "output", "enhanced_video", "result"): the first key
\* the dict holds decides, whatever its value
DictUrl(entries) ==
    LET has(key) == \E i \in 1..Len(entries) : entries[i].k = key
        at(key) == entries[CHOOSE i \in 1..Len(entries) : entries[i].k = key].v
        hits == {n \in 1..Len(KnownKeys) : has(KnownKeys[n])} IN
    IF hits = {} THEN NULL
    ELSE LET val == at(KnownKeys[CHOOSE n \in hits : \A k \in hits : n <= k]) IN
         Some(IF val.t = "obj" THEN val.url ELSE StrOf(val))

_extract_output_url(output) ==
    CASE output.t = "none" -> NULL
      [] output.t = "str" -> Some(output.url)
      [] output.t = "obj" -> Some(output.url)
      [] output.t = "list" -> ListUrl(output.items)
      [] output.t = "dict" -> DictUrl(output.entries)
      [] OTHER -> NULL

\* Python truth of an optional str: None and "" are false
Truthy(o) == o # NULL /\ Val(o) # ""

(***************************************************************************)
(* enhance.py: create_enhance_job, one action per stretch between awaits   *)
(***************************************************************************)
IdleReq ==
    [pc |-> "idle", upload_id |-> "", model_key |-> NULL, upload |-> NULL,
     model_name |-> "", job_id |-> "", error |-> ""]

IdleUnit ==
    [pc |-> "none", upload |-> NULL, model_name |-> "", err |-> <<>>,
     output_url |-> "", output_key |-> <<>>, output_size |-> 0]

NoCalls == [submit |-> 0, wait |-> 0, download |-> 0]

\* model_key or config.DEFAULT_ENHANCE_MODEL
KeyOrDefault(model_key) ==
    IF model_key = NULL \/ model_key = Some("")
    THEN DEFAULT_ENHANCE_MODEL ELSE Val(model_key)

\* PreconditionError without one of its tests
PreconditionErrorNoStatus(upload, model_key) ==
    CASE upload = NULL -> "Upload not found"
      [] ~token -> "REPLICATE_API_TOKEN not set"
      [] REPLICATE_MODELS(KeyOrDefault(model_key)) = NULL -> "Unknown model"
      [] OTHER -> ""

PreconditionErrorNoModel(upload, model_key) ==
    CASE upload = NULL -> "Upload not found"
      [] Val(upload).status # "uploaded" -> "Upload is not ready for enhancement"
      [] ~token -> "REPLICATE_API_TOKEN not set"
      [] OTHER -> ""

PreconditionErrorNoToken(upload, model_key) ==
    CASE upload = NULL -> "Upload not found"
      [] Val(upload).status # "uploaded" -> "Upload is not ready for enhancement"
      [] REPLICATE_MODELS(KeyOrDefault(model_key)) = NULL -> "Unknown model"
      [] OTHER -> ""

\* The EnhanceError of lines 41-53, or "" when every precondition holds
PreconditionError(upload, model_key) ==
    LET key == KeyOrDefault(model_key) IN
    CASE upload = NULL -> "Upload not found"
      [] Val(upload).status # "uploaded" -> "Upload is not ready for enhancement"
      [] ~token -> "REPLICATE_API_TOKEN not set"
      [] REPLICATE_MODELS(key) = NULL -> "Unknown model"
      [] OTHER -> ""

\* Lines 41-53: get_upload answers and the preconditions are tested.
\* Callers are interchangeable, so the request slots are taken in order.
create_check(r, upload_id, model_key) ==
    LET upload == get_upload(upload_id)
        error == PreconditionError(upload, model_key)
        model_name == REPLICATE_MODELS(KeyOrDefault(model_key)) IN
    /\ req[r].pc = "idle"
    /\ \A q \in ReqIds : q < r => req[q].pc # "idle"
    /\ req' = [req EXCEPT ![r] =
            IF error # ""
            THEN [@ EXCEPT !.pc = "done", !.upload_id = upload_id,
                           !.model_key = model_key, !.error = error]
            ELSE [@ EXCEPT !.pc = "insert", !.upload_id = upload_id,
                           !.model_key = model_key, !.upload = upload,
                           !.model_name = IF model_name = NULL THEN "None"
                                          ELSE Val(model_name)]]
    /\ UNCHANGED <<probe, token, uploads, files, jobs, unit, pred, spawned, calls>>

\* The ids uuid4 can give: an id some row has, or an id no row has (ids
\* are interchangeable, so the first unused one stands for all of them).
DrawableJobIds ==
    LET used == {i \in 1..Len(JobIdSeq) : jobs[JobIdSeq[i]] # NULL}
        free == (1..Len(JobIdSeq)) \ used IN
    {JobIdSeq[i] : i \in used} \cup
    {JobIdSeq[i] : i \in {n \in free : \A k \in free : n <= k}}

\* Lines 55-64: job_id is "job_" and 12 hex digits of a uuid4, drawn here;
\* insert_job raises sqlite's IntegrityError when the id is taken.
create_insert(r, job_id) ==
    LET record == [id |-> job_id, upload_id |-> req[r].upload_id,
                   model_name |-> req[r].model_name, status |-> "pending",
                   created_at |-> Now] IN
    /\ req[r].pc = "insert"
    /\ job_id \in DrawableJobIds
    /\ IF insert_job_ok(record)
       THEN /\ jobs' = insert_job(record)
            /\ req' = [req EXCEPT ![r].pc = "spawn", ![r].job_id = job_id]
       ELSE /\ jobs' = jobs
            /\ req' = [req EXCEPT ![r] = [@ EXCEPT !.pc = "done",
                        !.job_id = job_id, !.error = "IntegrityError",
                        !.upload = NULL, !.model_name = ""]]
    /\ UNCHANGED <<probe, token, uploads, files, unit, pred, spawned, calls>>

\* Line 67: asyncio.create_task(_run_prediction(job_id, upload, model_name))
create_spawn(r) ==
    LET j == req[r].job_id IN
    /\ req[r].pc = "spawn"
    /\ unit' = [unit EXCEPT ![j] = [IdleUnit EXCEPT !.pc = "start",
                    !.upload = req[r].upload, !.model_name = req[r].model_name]]
    /\ spawned' = [spawned EXCEPT ![j] = @ + 1]
    /\ req' = [req EXCEPT ![r].pc = "reread"]
    /\ UNCHANGED <<probe, token, uploads, files, jobs, pred, calls>>

\* The row create_enhance_job returns when its last await ends now
ReturnedRow(r) == get_job(req[r].job_id)

\* Line 69: return await db.get_job(job_id); the caller gets ReturnedRow(r)
\* and the coroutine is over
create_return(r) ==
    /\ req[r].pc = "reread"
    /\ req' = [req EXCEPT ![r] = [@ EXCEPT !.pc = "done",
                !.upload = NULL, !.model_name = ""]]
    /\ UNCHANGED <<probe, token, uploads, files, jobs, unit, pred, spawned, calls>>

(***************************************************************************)
(* enhance.py: _run_prediction, one action per stretch between awaits      *)
(***************************************************************************)
\* The status writes with a column forgotten
ProcessingFieldsNoStatus == [started_at |-> Now]

CompletedFieldsNoKey(output_key, output_size) ==
    [status |-> "completed", output_size |-> Some(output_size),
     progress |-> 100, completed_at |-> Now]

FailedFieldsNoMessage(err) == [status |-> "failed", completed_at |-> Now]

\* The fields of the three status writes
ProcessingFieldsNoStartedAt == [status |-> "processing"]

ProcessingFields == [status |-> "processing", started_at |-> Now]

CompletedFieldsNoProgress(output_key, output_size) ==
    [status |-> "completed", output_key |-> Some(output_key),
     output_size |-> Some(output_size), completed_at |-> Now]

CompletedFields(output_key, output_size) ==
    [status |-> "completed", output_key |-> Some(output_key),
     output_size |-> Some(output_size), progress |-> 100,
     completed_at |-> Now]

\* str(e) of the exception caught becomes the message
FailedFieldsNoCompletedAt(err) ==
    [status |-> "failed", error_message |-> Some(err)]

FailedFields(err) ==
    [status |-> "failed", error_message |-> Some(err), completed_at |-> Now]

\* raise ... inside the try block: the except clause runs next, and reads
\* nothing but the exception
Raise(j, err) == [unit EXCEPT ![j] = [IdleUnit EXCEPT !.pc = "except", !.err = err]]

\* Instead of ending, the task lands in its except handler
FinishInExcept(j) == [unit EXCEPT ![j] = [IdleUnit EXCEPT !.pc = "except", !.err = <<"late">>]]

\* Instead of ending, the task runs again from its first line
FinishRestart(j) ==
    [unit EXCEPT ![j] = [IdleUnit EXCEPT !.pc = "start",
                                         !.upload = uploads[Val(jobs[j]).upload_id],
                                         !.model_name = Val(jobs[j]).model_name]]

\* The task ends: its locals are gone
Finish(j) == [unit EXCEPT ![j] = [IdleUnit EXCEPT !.pc = "done"]]

\* Lines 77-80: the first write
run_start(j) ==
    /\ unit[j].pc = "start"
    /\ jobs' = update_job(j, ProcessingFields)
    /\ unit' = [unit EXCEPT ![j].pc = "submit"]
    /\ UNCHANGED <<probe, token, uploads, files, req, pred, spawned, calls>>

\* run_submit without the test of line 86
run_submit_no_check(j, accepted) ==
    /\ unit[j].pc = "submit"
    /\ calls' = [calls EXCEPT ![j].submit = @ + 1]
    /\ IF accepted
       THEN /\ pred' = [pred EXCEPT ![j].status = "starting"]
            /\ unit' = [unit EXCEPT ![j].pc = "save_id"]
       ELSE /\ unit' = [unit EXCEPT ![j] =
                    [IdleUnit EXCEPT !.pc = "except", !.err = <<"ReplicateError">>]]
            /\ pred' = pred
    /\ UNCHANGED <<probe, token, uploads, files, jobs, req, spawned>>

\* Lines 85-94: the source file is looked up and, when it is there,
\* _submit_prediction runs in a thread: the service accepts the submission
\* or the client raises.
run_submit(j, accepted) ==
    /\ unit[j].pc = "submit"
    /\ IF ~file_exists(Val(unit[j].upload).storage_key)
       THEN /\ unit' = Raise(j, <<"Source video not found in storage">>)
            /\ UNCHANGED <<pred, calls>>
       ELSE /\ calls' = [calls EXCEPT ![j].submit = @ + 1]
            /\ IF accepted
               THEN /\ pred' = [pred EXCEPT ![j].status = "starting"]
                    /\ unit' = [unit EXCEPT ![j].pc = "save_id"]
               ELSE /\ unit' = Raise(j, <<"ReplicateError">>)
                    /\ pred' = pred
    /\ UNCHANGED <<probe, token, uploads, files, jobs, req, spawned>>

\* run_save_id without the write of line 97
run_save_id_no_write(j) ==
    /\ unit[j].pc = "save_id"
    /\ unit' = [unit EXCEPT ![j].pc = "wait"]
    /\ calls' = [calls EXCEPT ![j].wait = @ + 1]
    /\ UNCHANGED <<probe, token, uploads, files, jobs, req, pred, spawned>>

\* Lines 96-102: replicate_id is written, then _wait_for_prediction is
\* handed to a thread
run_save_id(j) ==
    /\ unit[j].pc = "save_id"
    /\ jobs' = update_job(j, [replicate_id |-> Some(PredictionId(j))])
    /\ unit' = [unit EXCEPT ![j].pc = "wait"]
    /\ calls' = [calls EXCEPT ![j].wait = @ + 1]
    /\ UNCHANGED <<probe, token, uploads, files, req, pred, spawned>>

\* The service brings the prediction to a terminal status
prediction_ends(j, status, reason) ==
    /\ pred[j].status = "starting"
    /\ ~pred[j].poll_error
    /\ pred' = [pred EXCEPT ![j] =
            [status |-> status,
             error |-> IF status = "failed" THEN reason ELSE "",
             poll_error |-> FALSE]]
    /\ UNCHANGED <<probe, token, uploads, files, jobs, req, unit, spawned, calls>>

\* A poll of prediction.wait() fails (the service is unreachable)
poll_fails(j) ==
    /\ unit[j].pc = "wait"
    /\ pred[j].status = "starting"
    /\ ~pred[j].poll_error
    /\ pred' = [pred EXCEPT ![j].poll_error = TRUE]
    /\ UNCHANGED <<probe, token, uploads, files, jobs, req, unit, spawned, calls>>

\* Lines 102-120: prediction.wait() returns or raises; the result is tested,
\* the url extracted and _download_output called.  wait() has no timeout:
\* it returns only when the prediction is terminal.  output is what
\* prediction.output holds when it returns.
PredictionFailedNoReason(error) == <<"Replicate prediction failed">>

\* Line 105: the message of the error raised for a failed prediction
PredictionFailed(error) == <<"Replicate prediction failed: ", error>>

run_wait(j, output) ==
    LET p == pred[j]
        output_url == _extract_output_url(output)
        filename == <<"e", "_">> \o Val(unit[j].upload).original_filename IN
    /\ unit[j].pc = "wait"
    /\ p.poll_error \/ p.status \in {"succeeded", "failed", "canceled"}
    /\ (p.poll_error \/ p.status # "succeeded") => output = OutNone
    /\ CASE p.poll_error ->
              /\ unit' = Raise(j, <<"ReplicateError">>)
              /\ calls' = calls
         [] ~p.poll_error /\ p.status = "failed" ->
              /\ unit' = Raise(j, PredictionFailed(p.error))
              /\ calls' = calls
         [] ~p.poll_error /\ p.status = "canceled" ->
              /\ unit' = Raise(j, <<"Prediction was canceled">>)
              /\ calls' = calls
         [] ~p.poll_error /\ p.status = "succeeded" /\ ~Truthy(output_url) ->
              /\ unit' = Raise(j, <<"No output URL returned from Replicate">>)
              /\ calls' = calls
         [] OTHER ->
              /\ unit' = [unit EXCEPT ![j].pc = "download",
                              ![j].output_url = Val(output_url),
                              ![j].output_key = generate_output_key(j, filename)]
              /\ calls' = [calls EXCEPT ![j].download = @ + 1]
    /\ UNCHANGED <<probe, token, uploads, files, jobs, req, pred, spawned>>

\* _download_output: the request cannot be made or answers an error status
\* ("http_error", nothing is written), the stream breaks after the
\* destination was opened ("interrupted"), or the stream ends and total
\* bytes were written ("ok").
DownloadSizes == {0, 7}
DownloadOutcomes ==
    {[kind |-> "http_error", total |-> 0], [kind |-> "interrupted", total |-> 0]}
    \cup {[kind |-> "ok", total |-> n] : n \in DownloadSizes}

\* The result of _download_output: <<total>> returned, or NULL when it raises
_download_output(url, outcome) ==
    IF url # Url \/ outcome.kind # "ok" THEN NULL ELSE Some(outcome.total)

\* Line 120, to the return or the raise of _download_output
run_download(j, outcome) ==
    LET total == _download_output(unit[j].output_url, outcome) IN
    /\ unit[j].pc = "download"
    /\ unit[j].output_url # Url => outcome.kind = "http_error"
    /\ files' = IF outcome.kind = "http_error" THEN files
                ELSE files \cup {unit[j].output_key}
    /\ unit' = IF total = NULL
               THEN Raise(j, IF outcome.kind = "interrupted" THEN <<>>
                             ELSE <<"HTTPStatusError">>)
               ELSE [unit EXCEPT ![j].pc = "complete",
                                 ![j].output_size = Val(total)]
    /\ UNCHANGED <<probe, token, uploads, jobs, req, pred, spawned, calls>>

\* Lines 122-128: the write of the result
run_complete(j) ==
    /\ unit[j].pc = "complete"
    /\ jobs' = update_job(j, CompletedFields(unit[j].output_key,
                                             unit[j].output_size))
    /\ unit' = Finish(j)
    /\ UNCHANGED <<probe, token, uploads, files, req, pred, spawned, calls>>

\* Lines 132-138: except Exception
run_except(j) ==
    /\ unit[j].pc = "except"
    /\ jobs' = update_job(j, FailedFields(unit[j].err))
    /\ unit' = Finish(j)
    /\ UNCHANGED <<probe, token, uploads, files, req, pred, spawned, calls>>

(***************************************************************************)
(* main.py: the job routes that read                                       *)
(***************************************************************************)
\* Python truth of an optional storage key: None and the empty key are false
TruthyKey(o) == o # NULL /\ Val(o) # <<>>

\* downloadReady taken from completed_at instead of status and output_key
_job_to_detail_by_completed_at(j) ==
    [id |-> j["id"], uploadId |-> j["upload_id"],
     modelName |-> j["model_name"], status |-> j["status"],
     createdAt |-> j["created_at"],
     progress |-> j["progress"],
     errorMessage |-> j["error_message"],
     completedAt |-> j["completed_at"],
     downloadReady |-> Truthy(j["completed_at"])]

\* Lines 109-120: the projection of a job row.  bool(j.get("output_key"))
\* is false for None and for the empty string.
_job_to_detail(j) ==
    [id |-> j["id"], uploadId |-> j["upload_id"],
     modelName |-> j["model_name"], status |-> j["status"],
     createdAt |-> j["created_at"],
     progress |-> j["progress"],
     errorMessage |-> j["error_message"],
     completedAt |-> j["completed_at"],
     downloadReady |-> j["status"] = "completed" /\ TruthyKey(j["output_key"])]

\* Lines 252-275: the response to GET /api/jobs/{job_id}/download
download_enhanced(job_id) ==
    LET job == get_job(job_id) IN
    IF job = NULL THEN [code |-> 404, detail |-> "Job not found"]
    ELSE IF Val(job)["status"] # "completed"
    THEN [code |-> 400, detail |-> "Job is not complete"]
    ELSE IF ~TruthyKey(Val(job)["output_key"])
    THEN [code |-> 404, detail |-> "No output file"]
    ELSE IF ~file_exists(Val(Val(job)["output_key"]))
    THEN [code |-> 404, detail |-> "Enhanced file not found in storage"]
    ELSE [code |-> 200, detail |-> "FileResponse"]

(***************************************************************************)
(* The system                                                              *)
(***************************************************************************)
\* No result is being examined on its own
NoProbe == [pc |-> "none", output |-> OutNone, url |-> NULL, raised |-> <<>>]

\* The job model after construction
JobInit ==
    /\ token \in BOOLEAN
    /\ uploads = [u \in UploadIds |-> NULL]
    /\ files = {}
    /\ jobs = [j \in JobIds |-> NULL]
    /\ req = [r \in ReqIds |-> IdleReq]
    /\ unit = [j \in JobIds |-> IdleUnit]
    /\ pred = [j \in JobIds |-> NoPrediction]
    /\ spawned = [j \in JobIds |-> 0]
    /\ calls = [j \in JobIds |-> NoCalls]

Init == JobInit /\ probe = NoProbe

\* The wait of line 102 made on the event loop itself: while one task
\* waits for its prediction no other task runs
UnitStepBlocking(j) ==
    /\ \A k \in JobIds \ {j} :
           ~(unit[k].pc = "wait" /\ pred[k].status = "starting"
                 /\ ~pred[k].poll_error)
    /\ \/ run_start(j)
       \/ \E accepted \in BOOLEAN : run_submit(j, accepted)
       \/ run_save_id(j)
       \/ \E output \in Outputs : run_wait(j, output)
       \/ \E outcome \in DownloadOutcomes : run_download(j, outcome)
       \/ run_complete(j)
       \/ run_except(j)

UnitStep(j) ==
    \/ run_start(j)
    \/ \E accepted \in BOOLEAN : run_submit(j, accepted)
    \/ run_save_id(j)
    \/ \E output \in Outputs : run_wait(j, output)
    \/ \E outcome \in DownloadOutcomes : run_download(j, outcome)
    \/ run_complete(j)
    \/ run_except(j)

\* A create_enhance_job coroutine past its first await resumes
CreateResume(r) ==
    \/ \E j \in JobIds : create_insert(r, j)
    \/ create_spawn(r)
    \/ create_return(r)

CreateStep(r) ==
    \/ \E u \in UploadIdArgs, k \in ModelKeyArgs : create_check(r, u, k)
    \/ CreateResume(r)

Next ==
    \/ \E u \in UploadIds, f \in Filenames : init_upload(u, f)
    \/ \E u \in UploadIds, o \in SaveOutcomes : upload_file(u, o)
    \/ \E u \in UploadIds : complete_upload(u)
    \/ \E u \in UploadIds : delete_file(u)
    \/ \E r \in ReqIds : CreateStep(r)
    \/ \E j \in JobIds : UnitStep(j)
    \/ \E j \in JobIds, s \in {"succeeded", "failed", "canceled"},
          e \in Reasons : prediction_ends(j, s, e)
    \/ \E j \in JobIds : poll_fails(j)

Spec == Init /\ [][Next]_vars

\* The event loop resumes every coroutine and task that can run; callers
\* and the external service owe nothing.
FairSpec ==
    /\ Spec
    /\ \A j \in JobIds : WF_vars(UnitStep(j))
    /\ \A r \in ReqIds : WF_vars(CreateResume(r))

(***************************************************************************)
(* Lines 109-112 on their own: _extract_output_url applied to a succeeded  *)
(* prediction's output, then the test that decides between the raise and   *)
(* the download.  The job model stands still.                              *)
(***************************************************************************)
Url2 == "https://out/w"
ProbeUrls == {Url, Url2}
ProbeKeys == {"video", "output", "enhanced_video", "result", "file"}
ProbeItems ==
    {ItemStr(u) : u \in ProbeUrls} \cup {ItemObj(u) : u \in ProbeUrls}
    \cup {ItemStr(""), ItemNone, ItemOther}
ProbeEntries == {Entry(k, v) : k \in ProbeKeys, v \in ProbeItems}

SeqsUpTo(S, n) == UNION {[1..k -> S] : k \in 0..n}

\* A dict holds a key once
DistinctKeys(entries) ==
    \A a, b \in 1..Len(entries) : a # b => entries[a].k # entries[b].k

ProbeOutputs ==
    {OutNone, OutStr("")}
    \cup {OutStr(u) : u \in ProbeUrls} \cup {OutObj(u) : u \in ProbeUrls}
    \cup {OutList(items) : items \in SeqsUpTo(ProbeItems, MaxLen)}
    \cup {OutDict(entries) :
            entries \in {e \in SeqsUpTo(ProbeEntries, MaxLen) : DistinctKeys(e)}}

ExtractInit ==
    /\ JobInit
    /\ \E output \in ProbeOutputs :
          probe = [NoProbe EXCEPT !.pc = "extract", !.output = output]

\* Line 110: output_url = _extract_output_url(result)
probe_extract ==
    /\ probe.pc = "extract"
    /\ probe' = [probe EXCEPT !.pc = "test",
                              !.url = _extract_output_url(probe.output)]
    /\ UNCHANGED jobvars

\* Lines 111-112: if not output_url: raise; otherwise the task goes on to
\* _download_output(output_url, output_key)
probe_test ==
    /\ probe.pc = "test"
    /\ probe' = [probe EXCEPT
            !.pc = IF Truthy(probe.url) THEN "download" ELSE "except",
            !.raised = IF Truthy(probe.url) THEN <<>>
                       ELSE <<"No output URL returned from Replicate">>]
    /\ UNCHANGED jobvars

ExtractNext == probe_extract \/ probe_test

ExtractSpec == ExtractInit /\ [][ExtractNext]_vars

(***************************************************************************)
(* Properties                                                              *)
(***************************************************************************)
StatusOf(j) == IF jobs[j] = NULL THEN "absent" ELSE Val(jobs[j]).status

Forward(a, b) ==
    \/ a = b
    \/ <<a, b>> \in {<<"absent", "pending">>, <<"pending", "processing">>,
                     <<"processing", "completed">>, <<"processing", "failed">>,
                     <<"processing", "canceled">>}

\* C1: every step leaves each job's persisted status where it is or moves it
\* one edge forward along pending -> processing -> {completed, failed,
\* canceled}; a job is inserted as pending, so no status goes back and no
\* terminal status is written over anything but processing.
C1_StatusMovesForward ==
    [][\A j \in JobIds : Forward(StatusOf(j), StatusOf(j)')]_vars

C1_Witness ==
    \E j, k \in JobIds : StatusOf(j) = "completed" /\ StatusOf(k) = "failed"

\* C2: in every state, a job row has an output_key exactly when its status
\* is completed.
C2_OutputKeyIffCompleted ==
    \A j \in JobIds : jobs[j] # NULL =>
        (Val(jobs[j]).output_key # NULL <=> Val(jobs[j]).status = "completed")

C2_Witness ==
    \E j, k \in JobIds :
        /\ StatusOf(j) = "completed" /\ Val(jobs[j]).output_key # NULL
        /\ StatusOf(k) = "failed" /\ Val(jobs[k]).output_key = NULL

\* C3: in every state, a job row has an error_message exactly when its
\* status is failed.
C3_ErrorMessageIffFailed ==
    \A j \in JobIds : jobs[j] # NULL =>
        (Val(jobs[j]).error_message # NULL <=> Val(jobs[j]).status = "failed")

C3_Witness ==
    \E j, k \in JobIds :
        /\ StatusOf(j) = "failed" /\ Val(jobs[j]).error_message = Some(<<>>)
        /\ StatusOf(k) = "processing" /\ Val(jobs[k]).error_message = NULL

\* C4: whenever create_enhance_job returns a row, the row's status is
\* pending.
C4_ReturnsPending ==
    [][\A r \in ReqIds :
        (req[r].pc = "reread" /\ req'[r].pc = "done")
            => Val(ReturnedRow(r)).status = "pending"]_vars

\* C5: every job that exists eventually has status completed or failed,
\* whatever the service does, as long as the tasks keep running.
C5_EventuallyTerminal ==
    \A j \in JobIds :
        (StatusOf(j) # "absent") ~> (StatusOf(j) \in {"completed", "failed"})

\* C6: every completed job has an output_size above zero.
C6_CompletedHasBytes ==
    \A j \in JobIds :
        StatusOf(j) = "completed" => Val(Val(jobs[j]).output_size) > 0

\* The upload named is missing or not "uploaded"; the key names no model
BadUpload(upload_id) ==
    get_upload(upload_id) = NULL \/ Val(get_upload(upload_id)).status # "uploaded"

UnknownModel(model_key) == REPLICATE_MODELS(KeyOrDefault(model_key)) = NULL

\* Request r is called in this step: it leaves "idle" with its arguments
Called(r) == req[r].pc = "idle" /\ req'[r].pc # "idle"

\* No row is inserted or changed, no task is created, no client call is made
NothingStarted ==
    jobs' = jobs /\ unit' = unit /\ spawned' = spawned /\ calls' = calls
    /\ pred' = pred

\* C7: a call for an upload that is missing or not "uploaded" ends in the
\* step that reads the upload, with the upload's precondition error, and
\* inserts no row and creates no task; a finished call does nothing more.
C7_BadUploadRefused ==
    [][\A r \in ReqIds :
        /\ (Called(r) /\ BadUpload(req'[r].upload_id)) =>
              /\ req'[r].pc = "done"
              /\ req'[r].error = IF get_upload(req'[r].upload_id) = NULL
                                 THEN "Upload not found"
                                 ELSE "Upload is not ready for enhancement"
              /\ NothingStarted
        /\ req[r].pc = "done" => req'[r] = req[r]]_vars

C7_Witness ==
    \E r, q \in ReqIds :
        /\ req[r].pc = "done" /\ req[r].error = "Upload not found"
        /\ req[q].pc = "done"
        /\ req[q].error = "Upload is not ready for enhancement"

\* C8: a call whose model key resolves to no model ends in its first step
\* with an error, inserts no row, creates no task and makes no call to the
\* external client; every row ever inserted names a configured model.
C8_UnknownModelRefused ==
    [][\A r \in ReqIds :
        /\ (Called(r) /\ UnknownModel(req'[r].model_key)) =>
              /\ req'[r].pc = "done"
              /\ req'[r].error # ""
              /\ NothingStarted
        /\ \A j \in JobIds : jobs'[j] # NULL =>
              Val(jobs'[j]).model_name \in
                  {"lucataco/real-esrgan-video", "topazlabs/video-upscale"}]_vars

C8_Witness ==
    \E r \in ReqIds : req[r].pc = "done" /\ req[r].error = "Unknown model"

\* C9 as claimed: without a credential every call fails with an error that
\* is none of the unknown-upload, upload-not-ready and unknown-model errors.
C9_DistinctError ==
    \A r \in ReqIds :
        (~token /\ req[r].pc = "done") =>
            req[r].error \notin {"Upload not found",
                                 "Upload is not ready for enhancement",
                                 "Unknown model"}

\* C9 amended: without a credential every call ends in its first step with
\* an error, inserts no row and creates no task; the error is the
\* missing-credential error whenever the upload exists and is "uploaded"
\* (whatever the model key), and the upload's error otherwise.
C9_NoCredentialRefused ==
    [][\A r \in ReqIds :
        (Called(r) /\ ~token) =>
            /\ req'[r].pc = "done"
            /\ NothingStarted
            /\ req'[r].error =
                  IF BadUpload(req'[r].upload_id)
                  THEN (IF get_upload(req'[r].upload_id) = NULL
                        THEN "Upload not found"
                        ELSE "Upload is not ready for enhancement")
                  ELSE "REPLICATE_API_TOKEN not set"]_vars

C9_Witness ==
    \E r, q \in ReqIds :
        /\ req[r].pc = "done" /\ req[r].error = "REPLICATE_API_TOKEN not set"
        /\ req[r].model_key = Some("bogus")
        /\ req[q].pc = "done" /\ req[q].error = "REPLICATE_API_TOKEN not set"
        /\ req[q].model_key = NULL

\* C10: no job id ever has more than one task created for it, and a step
\* that changes a row already inserted is a step of that job's one task.
C10_OneUnitSoleWriter ==
    [][\A j \in JobIds :
        /\ spawned'[j] <= 1
        /\ (jobs[j] # NULL /\ jobs'[j] # jobs[j]) =>
              /\ spawned[j] = 1
              /\ unit[j].pc \notin {"none", "done"}
              /\ unit'[j] # unit[j]
              /\ \A k \in JobIds \ {j} : unit'[k] = unit[k]
              /\ req' = req]_vars

C10_Witness ==
    /\ \E r \in ReqIds : req[r].pc = "done" /\ req[r].error = "IntegrityError"
    /\ \E j \in JobIds :
        spawned[j] = 1 /\ unit[j].pc = "done" /\ StatusOf(j) = "completed"

\* The source file of job j's upload, as its task resolves it (line 85)
SourceKey(j) == Val(unit[j].upload).storage_key

SourceMissing == <<"Source video not found in storage">>

\* C11: a source file that is absent when a task starts is still absent when
\* the task looks for it; the task then raises "source missing" while the
\* job is processing without having called the external client, the next
\* step of the task writes failed with that message, and no submit, wait or
\* download is ever counted for such a job.
C11_MissingSourceNeverSubmitted ==
    [][\A j \in JobIds :
        /\ (unit[j].pc \in {"start", "submit"} /\ ~file_exists(SourceKey(j))
                /\ unit'[j].pc \in {"start", "submit"})
              => ~(SourceKey(j) \in files')
        /\ (unit[j].pc = "submit" /\ unit'[j] # unit[j]
                /\ ~file_exists(SourceKey(j))) =>
              /\ unit'[j].pc = "except" /\ unit'[j].err = SourceMissing
              /\ StatusOf(j) = "processing" /\ StatusOf(j)' = "processing"
              /\ calls'[j] = NoCalls /\ pred'[j] = NoPrediction
        /\ (unit[j].pc = "except" /\ unit[j].err = SourceMissing
                /\ unit'[j] # unit[j]) =>
              /\ StatusOf(j)' = "failed"
              /\ Val(jobs'[j]).error_message = Some(SourceMissing)
        /\ (jobs[j] # NULL /\ Val(jobs[j]).error_message = Some(SourceMissing))
              => (calls'[j] = NoCalls /\ pred'[j] = NoPrediction
                  /\ jobs'[j] = jobs[j])]_vars

C11_Witness ==
    \E j \in JobIds :
        /\ StatusOf(j) = "failed"
        /\ Val(jobs[j]).error_message = Some(SourceMissing)
        /\ Val(jobs[j]).started_at # NULL
        /\ calls[j] = NoCalls

Contains(message, part) == \E i \in 1..Len(message) : message[i] = part

\* C12: for a job whose prediction ended failed, the fetcher is never
\* called, the error the task raises mentions the service's reason, and once
\* the task has ended the job is failed with an error_message that contains
\* that reason.
C12_FailedPredictionFailsJob ==
    \A j \in JobIds :
        pred[j].status = "failed" =>
            /\ calls[j].download = 0
            /\ unit[j].pc \in {"save_id", "wait", "except", "done"}
            /\ unit[j].pc = "except" => Contains(unit[j].err, pred[j].error)
            /\ unit[j].pc = "done" =>
                  /\ StatusOf(j) = "failed"
                  /\ Contains(Val(Val(jobs[j]).error_message), pred[j].error)

C12_Witness ==
    \E j \in JobIds :
        /\ pred[j].status = "failed" /\ unit[j].pc = "done"
        /\ StatusOf(j) = "failed"
        /\ Val(jobs[j]).error_message = Some(PredictionFailed("low confidence"))

\* C13: a canceled prediction makes the task raise; every way out of the
\* submission, the wait, the extraction and the download other than the
\* next stage is a raise, taken while the job is processing; a task that
\* has raised can always take its next step, and that step writes failed
\* with the error's message and completed_at; a task that has ended has
\* left its job completed or failed, never processing.
C13_ErrorsEndAtFailed ==
    [][\A j \in JobIds :
        /\ (unit[j].pc = "wait" /\ pred[j].status = "canceled"
                /\ unit'[j] # unit[j]) =>
              /\ unit'[j].pc = "except"
              /\ unit'[j].err = <<"Prediction was canceled">>
        /\ (unit[j].pc \in {"submit", "save_id", "wait", "download"}
                /\ unit'[j] # unit[j]) =>
              \/ /\ unit'[j].pc = "except"
                 /\ StatusOf(j)' = "processing"
              \/ /\ <<unit[j].pc, unit'[j].pc>> \in
                        {<<"submit", "save_id">>, <<"save_id", "wait">>,
                         <<"wait", "download">>, <<"download", "complete">>}
                 /\ unit'[j].err = <<>>
        /\ unit[j].pc = "except" => ENABLED run_except(j)
        /\ (unit[j].pc = "except" /\ unit'[j] # unit[j]) =>
              /\ unit'[j].pc = "done"
              /\ StatusOf(j)' = "failed"
              /\ Val(jobs'[j]).error_message = Some(unit[j].err)
              /\ Val(jobs'[j]).completed_at # NULL
        /\ unit'[j].pc = "done" =>
              /\ StatusOf(j)' \in {"completed", "failed"}
              /\ pred'[j].status = "canceled" => StatusOf(j)' = "failed"]_vars

C13_Witness ==
    \E j \in JobIds :
        /\ pred[j].status = "canceled" /\ unit[j].pc = "done"
        /\ StatusOf(j) = "failed"
        /\ Val(jobs[j]).error_message = Some(<<"Prediction was canceled">>)
        /\ Val(jobs[j]).completed_at # NULL

\* The upload's original filename with the prefix of line 118, and what
\* line 23 of storage.py leaves of it
EnhancedName(j) ==
    <<"e", "_">> \o Val(uploads[Val(jobs[j]).upload_id]).original_filename

\* C14: a job that reads completed has a prediction that succeeded, exactly
\* one call of the fetcher, which wrote the output file, and carries an
\* output_key made of its own id and the upload's filename, an output_size,
\* progress 100 and completed_at; a job that does not read completed has
\* progress 0, so the fields arrive with the status.
C14_CompletedOnlyAfterFetch ==
    \A j \in JobIds :
        jobs[j] # NULL =>
            LET row == Val(jobs[j]) IN
            IF row.status = "completed"
            THEN /\ pred[j] = [status |-> "succeeded", error |-> "",
                               poll_error |-> FALSE]
                 /\ calls[j] = [submit |-> 1, wait |-> 1, download |-> 1]
                 /\ row.output_key # NULL
                 /\ Val(row.output_key)[2] = j
                 /\ Len(Val(row.output_key)) = 3 + Len(EnhancedName(j))
                 /\ \A i \in 1..Len(EnhancedName(j)) :
                        Val(row.output_key)[3 + i] =
                            IF IsAlnum(EnhancedName(j)[i])
                                   \/ EnhancedName(j)[i] \in {".", "_", "-"}
                            THEN EnhancedName(j)[i] ELSE "_"
                 /\ Val(row.output_key) \in files
                 /\ row.output_size # NULL
                 /\ row.progress = 100
                 /\ row.completed_at # NULL
            ELSE row.progress = 0 /\ row.output_size = NULL

C14_Witness ==
    \E j \in JobIds :
        /\ StatusOf(j) = "completed"
        /\ Val(jobs[j]).progress = 100
        /\ Val(jobs[j]).output_size = Some(7)
        /\ Val(jobs[j]).output_key
             = Some(<<"outputs", j, "_", "e", "_", "a", "_", "b", ".", "m">>)

Terminal(j) == StatusOf(j) \in {"completed", "failed"}

\* C15: no step changes any field of a job record that reads completed or
\* failed, so what get_job returns for it stays the same.
C15_TerminalRecordFrozen ==
    [][\A j \in JobIds :
        Terminal(j) => (jobs'[j] = jobs[j] /\ get_job(j)' = get_job(j))]_vars

\* Both ids are terminal, one each way, after every request has returned
C15_Witness ==
    /\ \E j \in JobIds : StatusOf(j) = "completed" /\ unit[j].pc = "done"
    /\ \E j \in JobIds : StatusOf(j) = "failed" /\ unit[j].pc = "done"
    /\ \A r \in ReqIds : req[r].pc = "done"

\* C16: for every job the client is asked to submit at most once, waited on
\* at most once and the fetcher called at most once; a job's task is created
\* at most once, and a job that reads failed has a task that has ended, so
\* nothing is submitted for it again.
C16_NothingRetried ==
    \A j \in JobIds :
        /\ calls[j].submit <= 1
        /\ calls[j].wait <= calls[j].submit
        /\ calls[j].download <= calls[j].wait
        /\ spawned[j] <= 1
        /\ StatusOf(j) = "failed" => (unit[j].pc = "done" /\ spawned[j] = 1)

C16_Witness ==
    \E j \in JobIds :
        /\ StatusOf(j) = "failed" /\ unit[j].pc = "done"
        /\ calls[j] = [submit |-> 1, wait |-> 1, download |-> 1]

\* Task j is inside prediction.wait() and its prediction has not ended
Blocked(j) ==
    /\ unit[j].pc = "wait"
    /\ pred[j].status = "starting" /\ ~pred[j].poll_error

\* Task j has a next statement to execute that waits for nothing outside
Runnable(j) == unit[j].pc \notin {"none", "done"} /\ ~Blocked(j)

\* C17: whatever the other tasks do, one blocked in its wait included, a
\* task with a next statement can take it, a create request past its first
\* await can resume and a new create request can be made; and no step that
\* a job's task can take changes a field of another job's record.
C17_JobsIndependent ==
    /\ \A b \in JobIds : Runnable(b) => ENABLED UnitStep(b)
    /\ \A r \in ReqIds :
         /\ req[r].pc \in {"insert", "spawn", "reread"}
               => ENABLED CreateResume(r)
         /\ (req[r].pc = "idle" /\ \A q \in 1..(r - 1) : req[q].pc # "idle")
               => ENABLED CreateStep(r)
    /\ \A a \in JobIds : \A b \in JobIds \ {a} :
         ~ENABLED (UnitStep(a) /\ jobs'[b] # jobs[b])

\* One task is blocked in its wait while the other job, whose task was
\* created, has run to completed
C17_Witness ==
    \E a \in JobIds : \E b \in JobIds \ {a} :
        /\ Blocked(a)
        /\ unit[b].pc = "done" /\ StatusOf(b) = "completed"

\* C18: for every job row the projection's downloadReady is true exactly
\* when the status is completed and output_key is set; the download route
\* answers with the file only for a job whose downloadReady is true, and
\* refuses every job that is pending, processing or failed.
C18_DownloadReadyDerived ==
    \A j \in JobIds :
        jobs[j] # NULL =>
            LET row == Val(jobs[j])
                ready == _job_to_detail(row).downloadReady
                resp == download_enhanced(j) IN
            /\ ready = (row.status = "completed" /\ row.output_key # NULL)
            /\ resp.code = 200 => ready
            /\ row.status \in {"pending", "processing", "failed"}
                  => (resp.code = 400 /\ ~ready)

C18_Witness ==
    \E a \in JobIds : \E b \in JobIds \ {a} :
        /\ StatusOf(a) = "completed"
        /\ _job_to_detail(Val(jobs[a])).downloadReady
        /\ download_enhanced(a).code = 200
        /\ StatusOf(b) = "failed"
        /\ ~_job_to_detail(Val(jobs[b])).downloadReady
        /\ download_enhanced(b).code = 400

\* A value that bears a URL: a non-empty str or an object with a url
BearsUrl(v) == v.t \in {"str", "obj"} /\ v.url # ""

\* prediction.output holds a URL-bearing value under a supported shape
OutputBearsUrl(output) ==
    CASE output.t \in {"str", "obj"} -> BearsUrl(output)
      [] output.t = "list" ->
            \E i \in 1..Len(output.items) : BearsUrl(output.items[i])
      [] output.t = "dict" ->
            \E i \in 1..Len(output.entries) :
                /\ output.entries[i].k \in {"video", "output",
                                            "enhanced_video", "result"}
                /\ BearsUrl(output.entries[i].v)
      [] OTHER -> FALSE

\* C19: when the output of a succeeded prediction holds no URL-bearing value
\* under any supported shape, lines 109-112 raise the "no usable output"
\* error and the task does not go on to the fetcher.  (Violated: a dict whose
\* known key holds None yields the string "None" and the task goes on.)
C19_NoUrlMeansNoFetch ==
    (probe.pc \in {"download", "except"} /\ ~OutputBearsUrl(probe.output)) =>
        /\ probe.pc = "except"
        /\ probe.raised = <<"No output URL returned from Replicate">>

\* The value a dict holds under key, or ItemNone when it has no such key
Under(entries, key) ==
    IF \E i \in 1..Len(entries) : entries[i].k = key
    THEN entries[CHOOSE i \in 1..Len(entries) : entries[i].k = key].v
    ELSE ItemNone

HasKey(entries, key) == \E i \in 1..Len(entries) : entries[i].k = key

\* The output is one of the four shapes of u: the str u, an object whose
\* url is u, a list whose first str-or-object element is u, or a dict whose
\* first key present, in the order video, output, enhanced_video, result,
\* holds u
ShapeOf(output, u) ==
    \/ output = OutStr(u)
    \/ output = OutObj(u)
    \/ /\ output.t = "list"
       /\ \E i \in 1..Len(output.items) :
            /\ output.items[i] \in {ItemStr(u), ItemObj(u)}
            /\ \A k \in 1..(i - 1) : output.items[k].t \notin {"str", "obj"}
    \/ /\ output.t = "dict"
       /\ LET e == output.entries
              first == IF HasKey(e, "video") THEN Under(e, "video")
                       ELSE IF HasKey(e, "output") THEN Under(e, "output")
                       ELSE IF HasKey(e, "enhanced_video")
                            THEN Under(e, "enhanced_video")
                       ELSE Under(e, "result") IN
          first \in {ItemStr(u), ItemObj(u)}

\* C20: for every URL u and every output that is one of the four shapes of
\* u, _extract_output_url returns u, and the task goes on to the download.
C20_ExtractReturnsUrl ==
    \A u \in ProbeUrls :
        (probe.pc \in {"test", "download", "except"}
             /\ ShapeOf(probe.output, u)) =>
            /\ probe.url = Some(u)
            /\ probe.pc # "except"

\* A dict that lists result before output, and a list whose str comes after
\* a value that bears nothing, have been extracted
C20_Witness ==
    /\ probe.pc = "download"
    /\ \/ /\ probe.output = OutDict(<<Entry("result", ItemStr(Url2)),
                                      Entry("output", ItemObj(Url))>>)
          /\ probe.url = Some(Url)
       \/ /\ probe.output = OutList(<<ItemNone, ItemStr(Url2)>>)
          /\ probe.url = Some(Url2)

\* The service accepted the submission made for job j
Accepted(j) == pred[j].status # "none"

\* C21: whenever a task is inside prediction.wait(), its job reads
\* processing with the prediction's id in replicate_id; and a row carries a
\* replicate_id only when the one submission made for it was accepted, the
\* id being that prediction's.
C21_ReplicateIdBeforeWait ==
    \A j \in JobIds :
        /\ unit[j].pc = "wait" =>
              /\ StatusOf(j) = "processing"
              /\ Val(jobs[j]).replicate_id = Some(PredictionId(j))
        /\ (jobs[j] # NULL /\ Val(jobs[j]).replicate_id # NULL) =>
              /\ Accepted(j) /\ calls[j].submit = 1
              /\ Val(jobs[j]).replicate_id = Some(PredictionId(j))
        /\ (calls[j].submit = 1 /\ ~Accepted(j)) =>
              Val(jobs[j]).replicate_id = NULL

\* The prediction is still running and an observer sees its id
C21_Witness ==
    \E j \in JobIds :
        /\ Blocked(j)
        /\ StatusOf(j) = "processing"
        /\ Val(jobs[j]).replicate_id = Some(PredictionId(j))

\* C22: in every state every job row has started_at set exactly when its
\* status is not pending and completed_at set exactly when its status is
\* completed or failed; since this holds before and after every write, each
\* timestamp arrives in the write that sets the status.
C22_TimestampsFollowStatus ==
    \A j \in JobIds :
        jobs[j] # NULL =>
            LET row == Val(jobs[j]) IN
            /\ (row.started_at # NULL) <=> (row.status # "pending")
            /\ (row.completed_at # NULL)
                  <=> (row.status \in {"completed", "failed"})

\* One job is processing, started and not completed; the other is terminal
\* with both timestamps
C22_Witness ==
    \E a \in JobIds : \E b \in JobIds \ {a} :
        /\ StatusOf(a) = "processing"
        /\ Val(jobs[a]).started_at # NULL /\ Val(jobs[a]).completed_at = NULL
        /\ Terminal(b)
        /\ Val(jobs[b]).started_at # NULL /\ Val(jobs[b]).completed_at # NULL

UploadStatus(u) == IF uploads[u] = NULL THEN "absent" ELSE Val(uploads[u]).status

\* C23: no step takes an upload from failed to uploaded, and no step takes
\* an upload whose file is in storage out of uploaded.  (Violated:
\* complete_upload does not look at the status, so after a transfer that
\* raised once the destination file was created it marks the upload
\* uploaded, and a job can then be created for it.)
C23_FailedUploadStaysFailed ==
    [][\A u \in UploadIds :
        /\ UploadStatus(u) = "failed" => UploadStatus(u)' # "uploaded"
        /\ (UploadStatus(u) = "uploaded"
                /\ file_exists(Val(uploads[u]).storage_key))
              => UploadStatus(u)' = "uploaded"]_vars

====
